---- MODULE Spec2Model ----
\* Model of CanvasManipulator (src/main.js 1201-1424): the canvas pixel-filter
\* engine.  A buffer is an ImageData-like record {width, height, data} whose
\* data is a Uint8ClampedArray, modelled as a sequence of integers in 0..255
\* (index k of the sequence is data[k-1] of the code).  imageData is the buffer
\* the caller holds, input its contents before the latest call, original its
\* contents before the first call; filterType, options, outcome and returned
\* describe the latest call and prevFilterType the call before it; rerun is
\* the result of running the latest call once more on a copy of its input;
\* pass is a filter pass in progress, taken one row (or tile row) at a time:
\* its result array, the rows still to do, and whether a row was taken
\* before a row above it; loop holds the loop counters of a pixelate or
\* glitch call that is followed one loop test at a time.
\*
\* Model of AnimationEngine (src/main.js 1953-2047) for one animation:
\* animation is the animation object (status "none" before createAnimation),
\* animations the keys of the registry Map, now the value of
\* performance.now(), rafQueue the number of animate callbacks requested for
\* the next frame, frame the frame being run (its timestamp, the callbacks
\* left to run in it, the onUpdate calls made in it, the progress of the
\* latest animate), pc the position inside animate ("onUpdate" while the
\* caller's onUpdate runs), and trace what has been observed of the callbacks.
EXTENDS Integers, Sequences, FiniteSets, TLC

VARIABLES imageData, input, original, filterType, options, prevFilterType, outcome, returned, calls, rerun,
          pass, loop,
          animation, animations, now, rafQueue, frame, pc, trace

filterVars == <<imageData, input, original, filterType, options, prevFilterType, outcome, returned, calls, rerun,
               pass, loop>>

animVars == <<animation, animations, now, rafQueue, frame, pc, trace>>

vars == <<filterVars, animVars>>

-----------------------------------------------------------------------------
\* Bounds of the model.
MaxWidth == 4
MaxHeight == 3
MaxRadius == 2
MaxSize == 3
MaxCoef == 2
MaxCalls == 2
IntensityDen == 2
MaxTime == 3
MaxDuration == 2
MaxPending == 2
MaxCount == 2

-----------------------------------------------------------------------------
\* JavaScript numbers.  Every number the filters compute is an integer, a
\* quotient of two integers, or NaN (a read past the end of data gives
\* undefined, and undefined in arithmetic gives NaN).
NaN == -1000000000

Plus(a, b) == IF a = NaN \/ b = NaN THEN NaN ELSE a + b

Times(a, k) == IF a = NaN THEN NaN ELSE a * k

\* data[i] for a zero-based index i: undefined (NaN in arithmetic) out of range.
At(data, i) == IF i >= 0 /\ i < Len(data) THEN data[i + 1] ELSE NaN

\* A store that truncates num/den (Math.floor) instead of rounding it.
ToUint8Clamped_floor(num, den) ==
    IF num = NaN \/ den = 0 THEN 0
    ELSE IF num <= 0 THEN 0
    ELSE IF num >= 255 * den THEN 255
    ELSE num \div den

\* Storing the number num/den into a Uint8ClampedArray: NaN becomes 0, the
\* value is clamped to [0,255] and rounded to the nearest integer, ties to even.
\* 0/0 (den = 0) is NaN.
ToUint8Clamped(num, den) ==
    IF num = NaN \/ den = 0 THEN 0
    ELSE IF num <= 0 THEN 0
    ELSE IF num >= 255 * den THEN 255
    ELSE LET q == num \div den
             r == num % den
         IN IF 2 * r < den THEN q
            ELSE IF 2 * r > den THEN q + 1
            ELSE IF q % 2 = 0 THEN q ELSE q + 1

\* Math.floor in the place of Math.round.
MathRound_trunc(num, den) ==
    IF num = NaN \/ den = 0 THEN NaN
    ELSE num \div den

\* Math.round(num/den): floor(num/den + 0.5); NaN stays NaN.
MathRound(num, den) ==
    IF num = NaN \/ den = 0 THEN NaN
    ELSE (2 * num + den) \div (2 * den)

\* Sum of data[i] over a set of zero-based indices.
RECURSIVE SumAt(_, _)
SumAt(data, S) ==
    IF S = {} THEN 0
    ELSE LET i == CHOOSE j \in S : TRUE
         IN Plus(At(data, i), SumAt(data, S \ {i}))

\* Pixel and channel of the sequence position k (1-based).
PixelOf(k) == (k - 1) \div 4
ChannelOf(k) == (k - 1) % 4

-----------------------------------------------------------------------------
\* A _grayscaleFilter that stores avg into data[i] and data[i+1] only.
_grayscaleFilter_skipBlue(img) ==
    LET data == img.data
    IN [k \in 1..Len(data) |->
          LET i == PixelOf(k) * 4
          IN IF ChannelOf(k) >= 2 THEN data[k]
             ELSE ToUint8Clamped(Plus(Plus(At(data, i), At(data, i + 1)), At(data, i + 2)), 3)]

\* A _grayscaleFilter whose loop steps over all four channels of a pixel.
_grayscaleFilter_alpha(img) ==
    LET data == img.data
    IN [k \in 1..Len(data) |->
          LET i == PixelOf(k) * 4
          IN ToUint8Clamped(Plus(Plus(At(data, i), At(data, i + 1)), At(data, i + 2)), 3)]

\* A _grayscaleFilter with a weighted average (R + 2G + B) / 4.
_grayscaleFilter_weighted(img) ==
    LET data == img.data
    IN [k \in 1..Len(data) |->
          LET i == PixelOf(k) * 4
          IN IF ChannelOf(k) = 3 THEN data[k]
             ELSE ToUint8Clamped(Plus(Plus(At(data, i), Times(At(data, i + 1), 2)), At(data, i + 2)), 4)]

\* _grayscaleFilter: in place; for i = 0, 4, 8, ... < data.length the three
\* colour channels get (data[i] + data[i+1] + data[i+2]) / 3, alpha untouched.
_grayscaleFilter(img) ==
    LET data == img.data
    IN [k \in 1..Len(data) |->
          LET i == PixelOf(k) * 4
          IN IF ChannelOf(k) = 3 THEN data[k]
             ELSE ToUint8Clamped(Plus(Plus(At(data, i), At(data, i + 1)), At(data, i + 2)), 3)]

\* A window whose loops run one step further (dx, dy <= radius + 1).
BlurWindow_wide(w, h, x, y, radius) ==
    {p \in ((x - radius)..(x + radius + 1)) \X ((y - radius)..(y + radius + 1)) :
        p[1] >= 0 /\ p[1] < w /\ p[2] >= 0 /\ p[2] < h}

\* The clipped window of _blurFilter around (x, y): the in-bounds (nx, ny).
BlurWindow(w, h, x, y, radius) ==
    {p \in ((x - radius)..(x + radius)) \X ((y - radius)..(y + radius)) :
        p[1] >= 0 /\ p[1] < w /\ p[2] >= 0 /\ p[2] < h}

\* A _blurFilter that divides by the full window size (2*radius+1)^2 instead
\* of the count of in-bounds pixels.
_blurFilter_fullCount(img, radius) ==
    LET data == img.data
        w == img.width
        h == img.height
    IN [k \in 1..Len(data) |->
          LET p == PixelOf(k)
              c == ChannelOf(k)
          IN IF w <= 0 \/ p >= w * h THEN 0
             ELSE LET x == p % w
                      y == p \div w
                      win == BlurWindow(w, h, x, y, radius)
                      idxs == {(q[2] * w + q[1]) * 4 + c : q \in win}
                  IN ToUint8Clamped(SumAt(data, idxs), (2 * radius + 1) * (2 * radius + 1))]

\* _blurFilter: result[i + c] = (sum of channel c over the window) / count,
\* for every pixel (x, y) of the width x height grid; result has data.length
\* entries, zero where nothing was written, and replaces data.
_blurFilter(img, radius) ==
    LET data == img.data
        w == img.width
        h == img.height
    IN [k \in 1..Len(data) |->
          LET p == PixelOf(k)
              c == ChannelOf(k)
          IN IF w <= 0 \/ p >= w * h THEN 0
             ELSE LET x == p % w
                      y == p \div w
                      win == BlurWindow(w, h, x, y, radius)
                      idxs == {(q[2] * w + q[1]) * 4 + c : q \in win}
                  IN ToUint8Clamped(SumAt(data, idxs), Cardinality(win))]

-----------------------------------------------------------------------------
\* The 3x3 kernels, row-major as in the source (kIdx = (ky+1)*3 + (kx+1)).
\* A sharpen kernel that also weighs the diagonal neighbours.
kernel_box == <<-1, -1, -1, -1, 9, -1, -1, -1, -1>>

kernel == <<0, -1, 0, -1, 5, -1, 0, -1, 0>>
\* A horizontal kernel with a weight on the centre pixel.
sobelX_centre == <<-1, 0, 1, -2, 1, 2, -1, 0, 1>>

sobelX == <<-1, 0, 1, -2, 0, 2, -1, 0, 1>>
sobelY == <<-1, -2, -1, 0, 0, 0, 1, 2, 1>>

\* Loops that visit every pixel of the grid (y = 0 .. height-1, x = 0 .. width-1).
Interior_all(w, h, x, y) == x >= 0 /\ x < w /\ y >= 0 /\ y < h

\* The interior of the grid: the pixels the loops of _sharpenFilter and
\* _edgeDetectionFilter visit (y = 1 .. height-2, x = 1 .. width-2).
Interior(w, h, x, y) == x >= 1 /\ x < w - 1 /\ y >= 1 /\ y < h - 1

\* Sum over the nine neighbours (kIdx = n .. 8) of data[idx + c] * k[kIdx],
\* idx = ((y + ky) * width + (x + kx)) * 4.
RECURSIVE KernelSum(_, _, _, _, _, _, _)
KernelSum(data, w, x, y, c, k, n) ==
    IF n > 8 THEN 0
    ELSE LET ky == (n \div 3) - 1
             kx == (n % 3) - 1
             idx == ((y + ky) * w + (x + kx)) * 4
         IN Plus(Times(At(data, idx + c), k[n + 1]), KernelSum(data, w, x, y, c, k, n + 1))

\* A store into an array that does not clamp (NaN still stored as 0).
ClampStore_noClamp(v) == IF v = NaN THEN 0 ELSE v

\* Math.min(255, Math.max(0, v)) stored into result (NaN stays NaN, stored 0).
ClampStore(v) == ToUint8Clamped(v, 1)

\* _sharpenFilter: result starts as data.length zeros; only interior pixels
\* are written; result then replaces data.
_sharpenFilter(img) ==
    LET data == img.data
        w == img.width
        h == img.height
    IN [k \in 1..Len(data) |->
          LET p == PixelOf(k)
              c == ChannelOf(k)
          IN IF w <= 0 \/ p >= w * h THEN 0
             ELSE LET x == p % w
                      y == p \div w
                  IN IF ~Interior(w, h, x, y) THEN 0
                     ELSE IF c = 3 THEN ClampStore(At(data, p * 4 + 3))
                     ELSE ClampStore(KernelSum(data, w, x, y, c, kernel, 0))]

\* Three times the Sobel response: val = (r + g + b) / 3, so
\* 3 * gx = sum of (r + g + b) * sobel[kIdx].
RECURSIVE SobelSum3(_, _, _, _, _, _)
SobelSum3(data, w, x, y, k, n) ==
    IF n > 8 THEN 0
    ELSE LET ky == (n \div 3) - 1
             kx == (n % 3) - 1
             idx == ((y + ky) * w + (x + kx)) * 4
             val3 == Plus(Plus(At(data, idx), At(data, idx + 1)), At(data, idx + 2))
         IN Plus(Times(val3, k[n + 1]), SobelSum3(data, w, x, y, k, n + 1))

\* Math.min(255, Math.sqrt(gx*gx + gy*gy)) as stored in a Uint8ClampedArray,
\* for gx = gx3/3 and gy = gy3/3: the integer m nearest to sqrt(s)/3 with
\* s = gx3^2 + gy3^2, i.e. (6m-3)^2 < 4s < (6m+3)^2 (no tie is possible:
\* 4s is even and (6m+3)^2 is odd), capped at 255.
EdgeMagnitude(gx3, gy3) ==
    IF gx3 = NaN \/ gy3 = NaN THEN 0
    ELSE LET s4 == 4 * (gx3 * gx3 + gy3 * gy3)
         IN CHOOSE m \in 0..255 :
               /\ (m = 0 \/ (6 * m - 3) * (6 * m - 3) < s4)
               /\ (m = 255 \/ s4 < (6 * m + 3) * (6 * m + 3))

\* An _edgeDetectionFilter without the line result[i + 3] = data[i + 3].
_edgeDetectionFilter_noAlpha(img) ==
    LET data == img.data
        w == img.width
        h == img.height
    IN [k \in 1..Len(data) |->
          LET p == PixelOf(k)
              c == ChannelOf(k)
          IN IF w <= 0 \/ p >= w * h THEN 0
             ELSE LET x == p % w
                      y == p \div w
                  IN IF ~Interior(w, h, x, y) \/ c = 3 THEN 0
                     ELSE EdgeMagnitude(SobelSum3(data, w, x, y, sobelX, 0),
                                        SobelSum3(data, w, x, y, sobelY, 0))]

\* _edgeDetectionFilter: same interior-only loop and zeroed result buffer.
_edgeDetectionFilter(img) ==
    LET data == img.data
        w == img.width
        h == img.height
    IN [k \in 1..Len(data) |->
          LET p == PixelOf(k)
              c == ChannelOf(k)
          IN IF w <= 0 \/ p >= w * h THEN 0
             ELSE LET x == p % w
                      y == p \div w
                  IN IF ~Interior(w, h, x, y) THEN 0
                     ELSE IF c = 3 THEN ClampStore(At(data, p * 4 + 3))
                     ELSE EdgeMagnitude(SobelSum3(data, w, x, y, sobelX, 0),
                                        SobelSum3(data, w, x, y, sobelY, 0))]

\* A tile whose loops run one step further (dx, dy <= size).
Tile_wide(w, h, tx, ty, size) ==
    {p \in (tx..(tx + size)) \X (ty..(ty + size)) : p[1] < w /\ p[2] < h}

\* The tile of _pixelateFilter that starts at (tx, ty): the (x, y) with
\* dx, dy < size that are inside the grid.
Tile(w, h, tx, ty, size) ==
    {p \in (tx..(tx + size - 1)) \X (ty..(ty + size - 1)) : p[1] < w /\ p[2] < h}

\* _pixelateFilter returns only when its loops end: with size <= 0 the loop
\* variable y never passes height (y += size), unless height is 0.
PixelateTerminates(img, size) == size >= 1 \/ img.height <= 0

\* A _pixelateFilter that writes the mean to the first pixel of the tile only.
_pixelateFilter_firstOnly(img, size) ==
    LET data == img.data
        w == img.width
        h == img.height
    IN [k \in 1..Len(data) |->
          LET p == PixelOf(k)
              c == ChannelOf(k)
          IN IF w <= 0 \/ p >= w * h \/ size < 1 THEN 0
             ELSE LET x == p % w
                      y == p \div w
                      tile == Tile(w, h, (x \div size) * size, (y \div size) * size, size)
                      idxs == {(q[2] * w + q[1]) * 4 + c : q \in tile}
                  IN IF x % size = 0 /\ y % size = 0
                        THEN ClampStore(MathRound(SumAt(data, idxs), Cardinality(tile)))
                        ELSE 0]

\* _pixelateFilter: every pixel of a tile gets Math.round(sum / count) of the
\* tile, per channel.
_pixelateFilter(img, size) ==
    LET data == img.data
        w == img.width
        h == img.height
    IN [k \in 1..Len(data) |->
          LET p == PixelOf(k)
              c == ChannelOf(k)
          IN IF w <= 0 \/ p >= w * h \/ size < 1 THEN 0
             ELSE LET x == p % w
                      y == p \div w
                      tile == Tile(w, h, (x \div size) * size, (y \div size) * size, size)
                      idxs == {(q[2] * w + q[1]) * 4 + c : q \in tile}
                  IN ClampStore(MathRound(SumAt(data, idxs), Cardinality(tile)))]

-----------------------------------------------------------------------------
\* _glitchFilter.  Math.random() is any real in [0, 1), so
\* floor(random * width * 0.2) is any integer in 0 .. ceil(width/5) - 1 and
\* floor(random * width * 0.1) any integer in 0 .. ceil(width/10) - 1.
GlitchWidths(w) == 0..(IF w <= 5 THEN 0 ELSE ((w + 4) \div 5) - 1)
\* An offset that is always 0.
GlitchOffsets_zero(w) == {0}

GlitchOffsets(w) == 0..(IF w <= 10 THEN 0 ELSE ((w + 9) \div 10) - 1)

\* numGlitches = Math.floor(height * intensity), intensity = num / IntensityDen.
NumGlitches(h, num) == (h * num) \div IntensityDen

\* A displacement whose destination column is x + offset without the wrap
\* (% width), so that it runs into the next row.
Displace_noWrap(result, data, w, y, glitchWidth, offset) ==
    [k \in 1..Len(result) |->
        LET p == PixelOf(k)
            c == ChannelOf(k)
            src == p - offset
        IN IF w <= 0 \/ src < 0 \/ src \div w # y THEN result[k]
           ELSE IF src % w < w - glitchWidth
                   THEN ClampStore(At(data, src * 4 + c))
                   ELSE result[k]]

\* One displacement: result[dest + j] = data[src + j] for x < width - glitchWidth,
\* src at column x and dest at column (x + offset) % width of row y.
Displace(result, data, w, y, glitchWidth, offset) ==
    [k \in 1..Len(result) |->
        LET p == PixelOf(k)
            c == ChannelOf(k)
        IN IF w <= 0 \/ p \div w # y THEN result[k]
           ELSE LET x == ((p % w) - offset) % w
                IN IF x < w - glitchWidth
                      THEN ClampStore(At(data, (y * w + x) * 4 + c))
                      ELSE result[k]]

\* The results the displacement loop can leave after n iterations.
RECURSIVE Displaced(_, _, _, _)
Displaced(data, w, h, n) ==
    IF n <= 0 THEN {data}
    ELSE {Displace(r, data, w, y, gw, off) :
             r \in Displaced(data, w, h, n - 1),
             y \in 0..(h - 1), gw \in GlitchWidths(w), off \in GlitchOffsets(w)}

\* A channel offset that is always 0.
ChannelOffset_zero(w) == 0

\* channelOffset = Math.floor(width * 0.02)
ChannelOffset(w) == w \div 50

\* The colour channel shift: result[i] = data[i + channelOffset*4] for
\* x < width - channelOffset.
RedShift(result, data, w, h) ==
    [k \in 1..Len(result) |->
        LET p == PixelOf(k)
        IN IF w <= 0 \/ p >= w * h \/ ChannelOf(k) # 0 THEN result[k]
           ELSE IF p % w < w - ChannelOffset(w)
                   THEN ClampStore(At(data, p * 4 + ChannelOffset(w) * 4))
                   ELSE result[k]]

\* _glitchFilter: the set of buffers it can return.
_glitchFilter(img, intensity) ==
    {RedShift(r, img.data, img.width, img.height) :
        r \in Displaced(img.data, img.width, img.height, NumGlitches(img.height, intensity))}

-----------------------------------------------------------------------------
\* The data indices (0-based, as in the source) that a filter call reads or
\* writes, in data and in result, which has the same length.

\* The four channels at a pixel index i0 = (y * width + x) * 4.
Channels(i0) == {i0 + j : j \in 0..3}

GrayscaleIndices(img) ==
    UNION {{i, i + 1, i + 2} : i \in {k \in 0..(Len(img.data) - 1) : k % 4 = 0}}

BlurIndices(img, radius) ==
    UNION {Channels((y * img.width + x) * 4)
              \cup UNION {Channels((q[2] * img.width + q[1]) * 4) :
                             q \in BlurWindow(img.width, img.height, x, y, radius)} :
           x \in 0..(img.width - 1), y \in 0..(img.height - 1)}

\* _sharpenFilter and _edgeDetectionFilter: i and idx = ((y+ky)*width + (x+kx))*4.
KernelIndices(img) ==
    UNION {Channels((y * img.width + x) * 4)
              \cup UNION {Channels(((y + ky) * img.width + (x + kx)) * 4) :
                             kx \in (-1)..1, ky \in (-1)..1} :
           <<x, y>> \in {p \in (0..(img.width - 1)) \X (0..(img.height - 1)) :
                            Interior(img.width, img.height, p[1], p[2])}}

PixelateIndices(img, size) ==
    UNION {UNION {Channels((q[2] * img.width + q[1]) * 4) :
                     q \in Tile(img.width, img.height, x, y, size)} :
           <<x, y>> \in {p \in (0..(img.width - 1)) \X (0..(img.height - 1)) :
                            p[1] % size = 0 /\ p[2] % size = 0}}

\* The colour channel shift reads data[i + channelOffset * 4] and writes result[i].
ShiftIndices(img) ==
    UNION {{(y * img.width + x) * 4, (y * img.width + x) * 4 + ChannelOffset(img.width) * 4} :
           <<x, y>> \in {p \in (0..(img.width - 1)) \X (0..(img.height - 1)) :
                            p[1] < img.width - ChannelOffset(img.width)}}

\* The displacement loop reads data[srcIdx + j] and writes result[destIdx + j].
DisplaceIndices(img, intensity) ==
    IF NumGlitches(img.height, intensity) <= 0 THEN {}
    ELSE UNION {Channels((y * img.width + x) * 4)
                   \cup Channels((y * img.width + ((x + off) % img.width)) * 4) :
                <<x, y, gw, off>> \in
                   {t \in (0..(img.width - 1)) \X (0..(img.height - 1))
                             \X GlitchWidths(img.width) \X GlitchOffsets(img.width) :
                       t[1] < img.width - t[3]}}

Accessed(name, opts, img) ==
    CASE name = "grayscale" -> GrayscaleIndices(img)
      [] name = "blur" -> BlurIndices(img, opts.radius)
      [] name \in {"sharpen", "edge"} -> KernelIndices(img)
      [] name = "pixelate" -> PixelateIndices(img, opts.size)
      [] name = "glitch" -> DisplaceIndices(img, opts.intensity) \cup ShiftIndices(img)
      [] OTHER -> {}

-----------------------------------------------------------------------------
\* _processFilter.  The lookup filters[filterType] is a property read on a
\* plain object literal: it finds the six own properties and, for any other
\* name, what Object.prototype provides.
FilterNames == {"grayscale", "blur", "sharpen", "edge", "pixelate", "glitch"}

\* Names that are not filters: "sepia" and "" are on no object (undefined);
\* the others are inherited from Object.prototype.
OtherNames == {"sepia", "", "constructor", "toString", "valueOf", "hasOwnProperty", "__proto__"}

\* The value of filters[filterType] for a name that is not an own property.
InheritedLookup(name) ==
    CASE name = "constructor" -> "Object"
      [] name = "toString" -> "Object.prototype.toString"
      [] name = "valueOf" -> "Object.prototype.valueOf"
      [] name = "hasOwnProperty" -> "Object.prototype.hasOwnProperty"
      [] name = "__proto__" -> "Object.prototype"
      [] OTHER -> "undefined"

Returns(data) == [outcome |-> "returned", returned |-> "imageData", data |-> data]

\* The possible results of _processFilter(imageData, filterType, options):
\* how the call ends, what it returns, and the contents of imageData.data.
_processFilter(img, name, opts) ==
    CASE name = "grayscale" -> {Returns(_grayscaleFilter(img))}
      [] name = "blur" -> {Returns(_blurFilter(img, opts.radius))}
      [] name = "sharpen" -> {Returns(_sharpenFilter(img))}
      [] name = "edge" -> {Returns(_edgeDetectionFilter(img))}
      [] name = "pixelate" ->
            IF PixelateTerminates(img, opts.size)
               THEN {Returns(_pixelateFilter(img, opts.size))}
               ELSE {[outcome |-> "hang", returned |-> "none", data |-> img.data]}
      [] name = "glitch" -> {Returns(d) : d \in _glitchFilter(img, opts.intensity)}
      [] OTHER ->
            LET f == InheritedLookup(name)
            IN CASE f = "undefined" -> {Returns(img.data)}
                 \* Object(imageData, options) returns its object argument
                 [] f = "Object" -> {Returns(img.data)}
                 [] f = "Object.prototype.toString" ->
                       {[outcome |-> "returned", returned |-> "string", data |-> img.data]}
                 [] f = "Object.prototype.valueOf" ->
                       {[outcome |-> "returned", returned |-> "filters", data |-> img.data]}
                 [] f = "Object.prototype.hasOwnProperty" ->
                       {[outcome |-> "returned", returned |-> "boolean", data |-> img.data]}
                 \* a truthy value that is not callable
                 [] OTHER -> {[outcome |-> "TypeError", returned |-> "none", data |-> img.data]}

-----------------------------------------------------------------------------
\* Input buffers.
Palette == << <<0, 0, 0, 255>>, <<255, 255, 255, 255>>, <<10, 20, 40, 128>>, <<201, 100, 50, 7>> >>

PatternData(w, h, a, b, c) ==
    [k \in 1..(w * h * 4) |->
        LET p == PixelOf(k)
            x == p % w
            y == p \div w
        IN Palette[((a * x + b * y + c) % Len(Palette)) + 1][ChannelOf(k) + 1]]

\* The buffer of the given size whose pixel (x, y) is pix[x, y].
BufferOf(w, h, pix) ==
    [width |-> w, height |-> h,
     data |-> [k \in 1..(w * h * 4) |->
                 pix[PixelOf(k) % w, PixelOf(k) \div w][ChannelOf(k) + 1]]]

Black == <<0, 0, 0, 255>>
White == <<255, 255, 255, 255>>

\* 3x3, white centre pixel, eight black neighbours.
WhiteCentre ==
    BufferOf(3, 3, [x \in 0..2, y \in 0..2 |-> IF x = 1 /\ y = 1 THEN White ELSE Black])

\* 4x3 with a white pixel at (1,1) whose four neighbours are black and a
\* black pixel at (2,1) whose four neighbours are white.
SharpenExtremes ==
    BufferOf(4, 3, [x \in 0..3, y \in 0..2 |->
                      IF x = 0 THEN Black
                      ELSE IF x = 1 THEN (IF y = 1 THEN White ELSE Black)
                      ELSE IF x = 2 THEN (IF y = 1 THEN Black ELSE White)
                      ELSE White])

\* 4x4 checkerboard of alternating black and white pixels.
Checkerboard ==
    BufferOf(4, 4, [x \in 0..3, y \in 0..3 |-> IF (x + y) % 2 = 0 THEN Black ELSE White])

\* 11x2 diagonal stripes: the narrowest grid on which glitch can draw a
\* non-zero offset (floor(random * 11 * 0.1) is 0 or 1).
WideStripes == [width |-> 11, height |-> 2, data |-> PatternData(11, 2, 1, 1, 0)]

\* 4x4 of mid-gray pixels (128,128,128,255).
MidGray == BufferOf(4, 4, [x \in 0..3, y \in 0..3 |-> <<128, 128, 128, 255>>])

\* 3x1: channel sums 71 (mean 23.67), 1 (mean 0.33) and a gray pixel.
Thirds ==
    BufferOf(3, 1, [x \in 0..2, y \in 0..0 |->
                      IF x = 0 THEN <<10, 20, 41, 255>>
                      ELSE IF x = 1 THEN <<0, 0, 1, 9>>
                      ELSE <<128, 128, 128, 255>>])

\* 50x1 stripes: the narrowest grid with channelOffset = floor(50 * 0.02) = 1.
ShiftStripes == [width |-> 50, height |-> 1, data |-> PatternData(50, 1, 1, 1, 0)]

\* 4x4 diagonal stripes: two interior rows with a non-zero Sobel response.
Mixed == [width |-> 4, height |-> 4, data |-> PatternData(4, 4, 1, 1, 0)]

ScenarioBuffers == {WhiteCentre, SharpenExtremes, Checkerboard, WideStripes, MidGray, Thirds,
                    ShiftStripes, Mixed}

PatternBuffers ==
    {[width |-> w, height |-> h, data |-> PatternData(w, h, a, b, c)] :
        w \in 0..MaxWidth, h \in 0..MaxHeight, a \in 0..MaxCoef, b \in 0..MaxCoef, c \in 0..MaxCoef}

\* Buffers whose data length is not width*height*4: one column declared too
\* many (data too short) or one row too few (data too long).
MismatchedBuffers ==
    {[width |-> w + 1, height |-> h, data |-> PatternData(w, h, 1, 1, 0)] :
        w \in 1..MaxWidth, h \in 1..MaxHeight}
    \cup {[width |-> w, height |-> h - 1, data |-> PatternData(w, h, 1, 1, 0)] :
        w \in 1..MaxWidth, h \in 1..MaxHeight}

\* The buffers a sequence of calls starts from: the largest grid and a 3x2
\* grid (no interior) with a uniform colour, diagonal stripes and two mixed
\* patterns, a single row, an empty buffer and a buffer with a row too few.
Seeds == {<<0, 0, 2>>, <<1, 1, 0>>, <<1, 2, 1>>, <<3, 1, 2>>}

RepeatBuffers ==
    {[width |-> MaxWidth, height |-> MaxHeight,
      data |-> PatternData(MaxWidth, MaxHeight, s[1], s[2], s[3])] : s \in Seeds}
    \cup {[width |-> 3, height |-> 2, data |-> PatternData(3, 2, s[1], s[2], s[3])] : s \in Seeds}
    \cup {[width |-> 2, height |-> 1, data |-> PatternData(2, 1, 1, 2, 1)],
          [width |-> 0, height |-> 0, data |-> << >>],
          [width |-> 2, height |-> 1, data |-> PatternData(2, 2, 1, 1, 0)]}

Radii == (-1)..MaxRadius
Sizes == 0..MaxSize
Intensities == 0..IntensityDen

\* The defaults of the destructured options: radius = 1, size = 10,
\* intensity = 0.1 (floor(height * 0.1) = 0 for every height below 10).
NoOptions == [radius |-> 1, size |-> 10, intensity |-> 0]

\* A well-formed buffer and parameters in range.
ValidBuffer(img) ==
    img.width >= 1 /\ img.height >= 1 /\ Len(img.data) = img.width * img.height * 4

ValidOptions(opts) ==
    opts.radius >= 0 /\ opts.size >= 1 /\ opts.intensity >= 0 /\ opts.intensity <= IntensityDen

\* AnimationEngine.  Times are whole milliseconds; a progress is the quotient
\* num / den of two integers.

\* The id createAnimation returns (crypto.randomUUID()).
AnimId == "id"

\* options.duration || 1000: the duration after the default is applied.
Durations == 1..MaxDuration

Min(a, b) == IF a < b THEN a ELSE b

\* A progress that is passed on without the cap.
MinOne_noCap(p) == p

\* Math.min(p, 1) of a progress with a positive denominator.
MinOne(p) == IF p.num >= p.den THEN [num |-> 1, den |-> 1] ELSE p

\* p < 1 for a progress with a positive denominator.
LessThanOne(p) == p.num < p.den

\* (timestamp - animation.startTime) / animation.duration
ProgressAt(a, timestamp) == [num |-> timestamp - a.startTime, den |-> a.duration]

\* (performance.now() - animation.startTime) / animation.duration
_getProgress(a) == ProgressAt(a, now)

\* options.easing || 'linear': three of the eight entries of easingFunctions.
Easings == {"linear", "easeInQuad", "easeOutQuad"}

\* _applyEasing(progress, easing) = easingFunctions[easing](progress):
\* linear t, easeInQuad t * t, easeOutQuad t * (2 - t).
_applyEasing(p, easing) ==
    CASE easing = "linear" -> p
      [] easing = "easeInQuad" -> [num |-> p.num * p.num, den |-> p.den * p.den]
      [] easing = "easeOutQuad" -> [num |-> p.num * (2 * p.den - p.num), den |-> p.den * p.den]

NoFrame == [running |-> FALSE, timestamp |-> 0, left |-> 0, updates |-> 0,
            progress |-> [num |-> 0, den |-> 1]]

\* pausedSince of an animation that is not in a pause.
NotPaused == -1

NoTrace == [completes |-> 0, stopReturned |-> FALSE, afterStop |-> {}, callsAfterStop |-> {},
            createdAt |-> 0, pausedSince |-> NotPaused, pausedTotal |-> 0,
            updates |-> 0, lastUpdate |-> [num |-> 0, den |-> 1]]

\* The engine before createAnimation: an empty registry, no frame requested.
NoAnimation ==
    /\ animation = [status |-> "none", startTime |-> 0, duration |-> 1, easing |-> "linear"]
    /\ animations = {}
    /\ now = 0
    /\ rafQueue = 0
    /\ frame = NoFrame
    /\ pc = "idle"
    /\ trace = NoTrace

\* The number of animate callbacks not yet run.
Live == rafQueue + frame.left

\* trace after the callback cb of the animation is invoked.
Invoked(tr, cb) ==
    [tr EXCEPT !.afterStop = IF tr.stopReturned THEN @ \cup {cb} ELSE @,
               !.completes = IF cb = "onComplete" THEN Min(@ + 1, MaxCount) ELSE @,
               !.updates = IF cb = "onUpdate" THEN Min(@ + 1, MaxCount) ELSE @]

\* trace after the API function fn is called with the animation's id.
Called(tr, fn) ==
    [tr EXCEPT !.callsAfterStop = IF tr.stopReturned THEN @ \cup {fn} ELSE @]

\* trace after a pause (if one was running) has ended: its length is added
\* to the time spent paused.
Unpaused(tr) ==
    IF tr.pausedSince = NotPaused THEN tr
    ELSE [tr EXCEPT !.pausedTotal = @ + (now - tr.pausedSince), !.pausedSince = NotPaused]

\* createAnimation(options): the object is registered with status 'running'
\* and _startAnimation requests the first frame.
createAnimation ==
    /\ animation.status = "none"
    /\ \E d \in Durations, e \in Easings :
          animation' = [status |-> "running", startTime |-> now, duration |-> d, easing |-> e]
    /\ animations' = {AnimId}
    /\ rafQueue' = rafQueue + 1
    /\ trace' = [trace EXCEPT !.createdAt = now]
    /\ UNCHANGED <<now, frame, pc, filterVars>>

\* Time passes between frames.
Tick ==
    /\ now < MaxTime
    /\ ~frame.running
    /\ pc = "idle"
    /\ now' = now + 1
    /\ UNCHANGED <<animation, animations, rafQueue, frame, pc, trace, filterVars>>

\* The browser starts a frame: every callback requested so far will run in it
\* with the same timestamp; callbacks requested from now on wait for the next.
BeginFrame ==
    /\ ~frame.running
    /\ rafQueue > 0
    /\ frame' = [frame EXCEPT !.running = TRUE, !.timestamp = now,
                              !.left = rafQueue, !.updates = 0]
    /\ rafQueue' = 0
    /\ UNCHANGED <<animation, animations, now, pc, trace, filterVars>>

\* animate(timestamp) up to the call of onUpdate: return at once unless the
\* status is 'running', else compute the progress and invoke onUpdate with
\* its eased value.
animate ==
    /\ frame.running
    /\ frame.left > 0
    /\ pc = "idle"
    /\ IF animation.status # "running"
       THEN /\ frame' = [frame EXCEPT !.left = @ - 1]
            /\ UNCHANGED <<pc, trace>>
       ELSE /\ frame' = [frame EXCEPT
                           !.progress = MinOne(ProgressAt(animation, frame.timestamp)),
                           !.updates = Min(@ + 1, MaxCount)]
            /\ pc' = "onUpdate"
            /\ trace' = [Invoked(trace, "onUpdate") EXCEPT
                            !.lastUpdate = _applyEasing(frame'.progress, animation.easing)]
    /\ UNCHANGED <<animation, animations, now, rafQueue, filterVars>>

\* animate after onUpdate has returned: request the next frame if progress < 1,
\* else set the status to 'completed' and invoke onComplete.
animateAfterUpdate ==
    /\ pc = "onUpdate"
    /\ IF LessThanOne(frame.progress)
       THEN /\ rafQueue' = rafQueue + 1
            /\ UNCHANGED <<animation, trace>>
       ELSE /\ animation' = [animation EXCEPT !.status = "completed"]
            /\ trace' = Invoked(trace, "onComplete")
            /\ UNCHANGED rafQueue
    /\ frame' = [frame EXCEPT !.left = @ - 1]
    /\ pc' = "idle"
    /\ UNCHANGED <<animations, now, filterVars>>

\* The frame ends when its callbacks have run.
EndFrame ==
    /\ frame.running
    /\ frame.left = 0
    /\ pc = "idle"
    /\ frame' = [frame EXCEPT !.running = FALSE]
    /\ UNCHANGED <<animation, animations, now, rafQueue, pc, trace, filterVars>>

\* pauseAnimation(id), from any code that holds the id: between frames,
\* between the callbacks of a frame, or inside onUpdate.
pauseAnimation ==
    /\ animation.status # "none"
    /\ animation' = IF AnimId \in animations
                    THEN [animation EXCEPT !.status = "paused"]
                    ELSE animation
    /\ trace' = Called(IF AnimId \in animations /\ animation.status = "running"
                           THEN [trace EXCEPT !.pausedSince = now]
                           ELSE trace,
                        "pauseAnimation")
    /\ UNCHANGED <<animations, now, rafQueue, frame, pc, filterVars>>

\* resumeAnimation(id): a registered, paused animation gets
\* startTime = now - duration * _getProgress(animation), status 'running' and
\* a new animate callback from _startAnimation.
resumeAnimation ==
    /\ animation.status # "none"
    /\ IF AnimId \in animations /\ animation.status = "paused"
       THEN /\ Live < MaxPending
            /\ animation' = [animation EXCEPT
                  !.startTime = now - (animation.duration * _getProgress(animation).num)
                                          \div _getProgress(animation).den,
                  !.status = "running"]
            /\ rafQueue' = rafQueue + 1
            /\ trace' = Called(Unpaused(trace), "resumeAnimation")
       ELSE /\ trace' = Called(trace, "resumeAnimation")
            /\ UNCHANGED <<animation, rafQueue>>
    /\ UNCHANGED <<animations, now, frame, pc, filterVars>>

\* stopAnimation(id): a registered animation gets status 'stopped' and is
\* deleted from the registry.
stopAnimation ==
    /\ animation.status # "none"
    /\ IF AnimId \in animations
       THEN /\ animation' = [animation EXCEPT !.status = "stopped"]
            /\ animations' = animations \ {AnimId}
       ELSE UNCHANGED <<animation, animations>>
    /\ trace' = [trace EXCEPT !.stopReturned = TRUE]
    /\ UNCHANGED <<now, rafQueue, frame, pc, filterVars>>

\* No call is being followed loop by loop.
NoLoop == [pc |-> "idle", i |-> 0, y |-> 0, x |-> 0, glitchWidth |-> 0]

\* No pass is in progress.
NoPass == [phase |-> "idle", result |-> << >>, todo |-> {}, outOfOrder |-> FALSE]

\* No second run of the latest call has been made.
NoRerun == [made |-> FALSE, data |-> << >>]

\* The state before the first call on the buffer buf.
Start(buf) ==
    /\ imageData = buf
    /\ input = buf
    /\ original = buf
    /\ filterType = "none"
    /\ prevFilterType = "none"
    /\ options = NoOptions
    /\ outcome = "none"
    /\ returned = "none"
    /\ calls = 0
    /\ rerun = NoRerun
    /\ pass = NoPass
    /\ loop = NoLoop
    /\ NoAnimation

Init == \E buf \in PatternBuffers \cup MismatchedBuffers \cup ScenarioBuffers : Start(buf)

\* One call _processFilter(imageData, name, opts) on the current buffer, when
\* fewer than limit calls have been made; a further call is made only on a
\* buffer that the previous call returned.
Call(name, opts, limit) ==
    /\ calls < limit
    /\ outcome \in {"none", "returned"}
    /\ returned \in {"none", "imageData"}
    /\ \E res \in _processFilter(imageData, name, opts) :
          /\ imageData' = [imageData EXCEPT !.data = res.data]
          /\ outcome' = res.outcome
          /\ returned' = res.returned
    /\ input' = imageData
    /\ original' = original
    /\ filterType' = name
    /\ prevFilterType' = filterType
    /\ options' = opts
    /\ calls' = calls + 1
    /\ rerun' = NoRerun
    /\ pass' = pass
    /\ loop' = loop
    /\ UNCHANGED animVars

Grayscale(limit) == Call("grayscale", NoOptions, limit)

Blur(limit) == \E r \in Radii : Call("blur", [NoOptions EXCEPT !.radius = r], limit)

Sharpen(limit) == Call("sharpen", NoOptions, limit)

EdgeDetect(limit) == Call("edge", NoOptions, limit)

Pixelate(limit) == \E s \in Sizes : Call("pixelate", [NoOptions EXCEPT !.size = s], limit)

Glitch(limit) == \E n \in Intensities : Call("glitch", [NoOptions EXCEPT !.intensity = n], limit)

Unrecognized(limit) == \E name \in OtherNames : Call(name, NoOptions, limit)

\* The same call once more: _processFilter on a buffer equal to the input of
\* the latest call, with the same filterType and options.
Rerun ==
    /\ calls > 0
    /\ ~rerun.made
    /\ outcome = "returned"
    /\ returned = "imageData"
    /\ \E res \in _processFilter(input, filterType, options) :
          rerun' = [made |-> TRUE, data |-> res.data]
    /\ UNCHANGED <<imageData, input, original, filterType, options, prevFilterType,
                   outcome, returned, calls, pass, loop>>
    /\ UNCHANGED animVars

\* Spec: one call of a filter on any of the input buffers (the filters keep
\* no state between calls, so a call depends on its buffer and options only),
\* and possibly the same call once more on an equal buffer.
Next ==
    \/ Grayscale(1)
    \/ Blur(1)
    \/ Sharpen(1)
    \/ EdgeDetect(1)
    \/ Pixelate(1)
    \/ Glitch(1)
    \/ Unrecognized(1)
    \/ Rerun

Spec == Init /\ [][Next]_vars

\* SpecRepeat: up to MaxCalls calls in a row on the same buffer, each on the
\* result of the one before.
InitRepeat == \E buf \in RepeatBuffers : Start(buf)

NextRepeat ==
    \/ Grayscale(MaxCalls)
    \/ Blur(MaxCalls)
    \/ Sharpen(MaxCalls)
    \/ EdgeDetect(MaxCalls)
    \/ Pixelate(MaxCalls)
    \/ Glitch(MaxCalls)
    \/ Unrecognized(MaxCalls)

SpecRepeat == InitRepeat /\ [][NextRepeat]_vars

\* SpecAnim: one animation of the AnimationEngine, its frames, and the calls
\* of pauseAnimation, resumeAnimation and stopAnimation with its id.
InitAnim == Start([width |-> 0, height |-> 0, data |-> << >>])

NextAnim ==
    \/ createAnimation
    \/ Tick
    \/ BeginFrame
    \/ animate
    \/ animateAfterUpdate
    \/ EndFrame
    \/ pauseAnimation
    \/ resumeAnimation
    \/ stopAnimation

SpecAnim == InitAnim /\ [][NextAnim]_vars

\* SpecAnimRun: an animation that is never paused or stopped, while frames
\* keep firing and time keeps passing between them.
NextAnimRun ==
    \/ createAnimation
    \/ Tick
    \/ BeginFrame
    \/ animate
    \/ animateAfterUpdate
    \/ EndFrame

SpecAnimRun ==
    /\ InitAnim
    /\ [][NextAnimRun]_vars
    /\ SF_vars(Tick)
    /\ WF_vars(BeginFrame)
    /\ WF_vars(animate)
    /\ WF_vars(animateAfterUpdate)
    /\ WF_vars(EndFrame)

\* SpecRows: one pass of blur, sharpen, edge or pixelate taken a row at a
\* time, the rows in any order.  Each of these filters allocates result,
\* fills it in its y loop from data (= imageData.data) and ends with
\* imageData.data.set(result).
RowFilters == {"blur", "sharpen", "edge", "pixelate"}

\* The filter fn as a function of the buffer its loops read.
Sequential(name, opts, img) ==
    CASE name = "blur" -> _blurFilter(img, opts.radius)
      [] name = "sharpen" -> _sharpenFilter(img)
      [] name = "edge" -> _edgeDetectionFilter(img)
      [] name = "pixelate" -> _pixelateFilter(img, opts.size)

\* The values y takes in the outer loop: every row for blur, the interior
\* rows for sharpen and edge, the first row of every tile for pixelate.
PassRows(name, opts, h) ==
    CASE name = "blur" -> 0..(h - 1)
      [] name \in {"sharpen", "edge"} -> 1..(h - 2)
      [] name = "pixelate" -> {y \in 0..(h - 1) : y % opts.size = 0}

\* The entries of result that iteration y of the outer loop writes.
WrittenBy(name, opts, w, h, y) ==
    {k \in 1..(w * h * 4) :
        LET px == PixelOf(k) % w
            py == PixelOf(k) \div w
        IN CASE name = "blur" -> py = y
             [] name \in {"sharpen", "edge"} -> py = y /\ px >= 1 /\ px <= w - 2
             [] name = "pixelate" -> py >= y /\ py < y + opts.size}

\* A pass that reads the array it is writing.
ReadBuffer_result(data, result) == result

\* The array the loops read: data, which nothing writes before the final set.
ReadBuffer(data, result) == data

\* result after iteration y of the outer loop.
RowStep(name, opts, img, result, y) ==
    LET out == Sequential(name, opts, [img EXCEPT !.data = ReadBuffer(img.data, result)])
        written == WrittenBy(name, opts, img.width, img.height, y)
    IN [k \in 1..Len(result) |-> IF k \in written THEN out[k] ELSE result[k]]

\* The options a pass is made with: radius >= 0 for blur, size >= 1 for
\* pixelate, the defaults for the others.
PassOptions(name) ==
    CASE name = "blur" -> {[NoOptions EXCEPT !.radius = r] : r \in 0..MaxRadius}
      [] name = "pixelate" -> {[NoOptions EXCEPT !.size = sz] : sz \in 1..MaxSize}
      [] OTHER -> {NoOptions}

\* The filter is entered: result = new Uint8ClampedArray(data.length).
BeginPass ==
    /\ pass.phase = "idle"
    /\ calls = 0
    /\ \E name \in RowFilters :
          \E opts \in PassOptions(name) :
             /\ filterType' = name
             /\ options' = opts
             /\ pass' = [phase |-> "rows",
                         result |-> [k \in 1..Len(imageData.data) |-> 0],
                         todo |-> PassRows(name, opts, imageData.height),
                         outOfOrder |-> FALSE]
    /\ input' = imageData
    /\ prevFilterType' = filterType
    /\ UNCHANGED <<imageData, original, outcome, returned, calls, rerun, loop, animVars>>

\* One iteration of the outer loop, for any row not yet done.
ProcessRow ==
    /\ pass.phase = "rows"
    /\ \E y \in pass.todo :
          pass' = [pass EXCEPT
                      !.result = RowStep(filterType, options, imageData, pass.result, y),
                      !.todo = @ \ {y},
                      !.outOfOrder = @ \/ \E z \in pass.todo : z < y]
    /\ UNCHANGED <<imageData, input, original, filterType, options, prevFilterType,
                   outcome, returned, calls, rerun, loop, animVars>>

\* imageData.data.set(result); return imageData.
CopyBack ==
    /\ pass.phase = "rows"
    /\ pass.todo = {}
    /\ imageData' = [imageData EXCEPT !.data = pass.result]
    /\ pass' = [pass EXCEPT !.phase = "done"]
    /\ outcome' = "returned"
    /\ returned' = "imageData"
    /\ calls' = calls + 1
    /\ UNCHANGED <<input, original, filterType, options, prevFilterType, rerun, loop, animVars>>

InitRows == \E buf \in {b \in RepeatBuffers \cup ScenarioBuffers : ValidBuffer(b)} : Start(buf)

NextRows ==
    \/ BeginPass
    \/ ProcessRow
    \/ CopyBack

SpecRows == InitRows /\ [][NextRows]_vars

\* SpecLoops: the loops of _pixelateFilter and _glitchFilter, one loop test
\* at a time.  The bodies (tile sums, pixel copies) are bounded unit-stride
\* loops and are taken with the test that guards them.

\* The update of a loop counter (y += size, x += size, i++, x++, y++).
Advance_stuck(v, step) == v

Advance(v, step) == v + step

\* The call is entered with the loop counters of its first loop at zero.
EnterLoops ==
    /\ loop.pc = "idle"
    /\ calls = 0
    /\ \/ \E sz \in Sizes :
             /\ filterType' = "pixelate"
             /\ options' = [NoOptions EXCEPT !.size = sz]
       \/ \E n \in Intensities :
             /\ filterType' = "glitch"
             /\ options' = [NoOptions EXCEPT !.intensity = n]
    /\ loop' = [NoLoop EXCEPT !.pc = filterType']
    /\ input' = imageData
    /\ prevFilterType' = filterType
    /\ UNCHANGED <<imageData, original, outcome, returned, calls, rerun, pass, animVars>>

\* _pixelateFilter: for (y = 0; y < height; y += size)
\*                     for (x = 0; x < width; x += size) { one tile }
pixelateLoop ==
    /\ loop.pc = "pixelate"
    /\ IF loop.y >= imageData.height
          THEN loop' = [loop EXCEPT !.pc = "done"]
          ELSE IF loop.x < imageData.width
                  THEN loop' = [loop EXCEPT !.x = Advance(@, options.size)]
                  ELSE loop' = [loop EXCEPT !.y = Advance(@, options.size), !.x = 0]
    /\ UNCHANGED <<imageData, input, original, filterType, options, prevFilterType,
                   outcome, returned, calls, rerun, pass, animVars>>

\* _glitchFilter: for (i = 0; i < numGlitches; i++) { draw y, glitchWidth,
\* offset; for (x = 0; x < width - glitchWidth; x++) { copy one pixel } },
\* then the colour channel shift: for (y = 0; y < height; y++)
\* for (x = 0; x < width; x++) { one pixel }.
glitchLoop ==
    /\ loop.pc \in {"glitch", "displace", "shift"}
    /\ CASE loop.pc = "glitch" ->
               IF loop.i < NumGlitches(imageData.height, options.intensity)
                  THEN \E gw \in GlitchWidths(imageData.width) :
                          loop' = [loop EXCEPT !.pc = "displace", !.glitchWidth = gw, !.x = 0]
                  ELSE loop' = [loop EXCEPT !.pc = "shift", !.y = 0, !.x = 0]
         [] loop.pc = "displace" ->
               IF loop.x < imageData.width - loop.glitchWidth
                  THEN loop' = [loop EXCEPT !.x = Advance(@, 1)]
                  ELSE loop' = [loop EXCEPT !.i = Advance(@, 1), !.pc = "glitch"]
         [] loop.pc = "shift" ->
               IF loop.y >= imageData.height
                  THEN loop' = [loop EXCEPT !.pc = "done"]
                  ELSE IF loop.x < imageData.width
                          THEN loop' = [loop EXCEPT !.x = Advance(@, 1)]
                          ELSE loop' = [loop EXCEPT !.y = Advance(@, 1), !.x = 0]
    /\ UNCHANGED <<imageData, input, original, filterType, options, prevFilterType,
                   outcome, returned, calls, rerun, pass, animVars>>

\* imageData.data.set(result); return imageData.
ReturnFromLoops ==
    /\ loop.pc = "done"
    /\ outcome = "none"
    /\ outcome' = "returned"
    /\ returned' = "imageData"
    /\ calls' = calls + 1
    /\ UNCHANGED <<imageData, input, original, filterType, options, prevFilterType,
                   rerun, pass, loop, animVars>>

NextLoops ==
    \/ EnterLoops
    \/ pixelateLoop
    \/ glitchLoop
    \/ ReturnFromLoops

\* A call that has been entered keeps running.
SpecLoops ==
    /\ InitRows
    /\ [][NextLoops]_vars
    /\ WF_vars(pixelateLoop)
    /\ WF_vars(glitchLoop)
    /\ WF_vars(ReturnFromLoops)

-----------------------------------------------------------------------------
\* Properties.  A call has been made when calls > 0; input is then the buffer
\* the call received and imageData the buffer after it.

\* Channel c (0 = R .. 3 = A) of pixel (x, y) of a buffer.
Px(img, x, y, c) == img.data[(y * img.width + x) * 4 + c + 1]

Cols(img) == 0..(img.width - 1)
Rows(img) == 0..(img.height - 1)

\* C1: for a valid buffer and valid parameters, whatever the filter name,
\* _processFilter returns a buffer with the input's width and height and with
\* width*height*4 data entries.
C1_DimensionsPreserved ==
    (calls > 0 /\ ValidBuffer(input) /\ ValidOptions(options)) =>
        /\ outcome = "returned"
        /\ returned = "imageData"
        /\ imageData.width = input.width
        /\ imageData.height = input.height
        /\ Len(imageData.data) = input.width * input.height * 4

\* C2: after sharpen and after edge, every pixel of the first and last row and
\* column has the R, G, B and A values it had in the input.
C2_BorderUnchanged ==
    (calls > 0 /\ filterType \in {"sharpen", "edge"} /\ ValidBuffer(input)) =>
        \A x \in Cols(input), y \in Rows(input) :
            ~Interior(input.width, input.height, x, y) =>
                \A c \in 0..3 : Px(imageData, x, y, c) = Px(input, x, y, c)

\* C3: for every name that is not one of the six filters, _processFilter
\* raises no error and returns the input buffer unchanged.
C3_UnrecognizedReturnsInput ==
    (calls > 0 /\ filterType \notin FilterNames) =>
        /\ outcome = "returned"
        /\ returned = "imageData"
        /\ imageData = input

\* C4: a call on a buffer with width 0, height 0 or a data length other than
\* width*height*4 fails with InvalidDimensionError and leaves the buffer as
\* it was.
C4_InvalidDimensionError ==
    (calls > 0 /\ ~ValidBuffer(input)) =>
        /\ outcome = "InvalidDimensionError"
        /\ imageData = input

\* C5: grayscale is idempotent: a grayscale call on the result of a grayscale
\* call leaves every channel of every pixel as it is.
C5_GrayscaleIdempotent ==
    (calls > 1 /\ filterType = "grayscale" /\ prevFilterType = "grayscale") =>
        imageData.data = input.data

\* The second of two grayscale calls, where the first one changed the buffer.
C5_Witness ==
    /\ calls = 2 /\ filterType = "grayscale" /\ prevFilterType = "grayscale"
    /\ ValidBuffer(original)
    /\ input.data # original.data
    /\ imageData.data = input.data

\* C6: grayscale leaves the alpha of every pixel equal to its input alpha.
C6_GrayscaleKeepsAlpha ==
    (calls > 0 /\ filterType = "grayscale") =>
        \A k \in 1..Len(input.data) :
            ChannelOf(k) = 3 => imageData.data[k] = input.data[k]

\* A grayscale call that changed a pixel whose alpha differs from its gray.
C6_Witness ==
    /\ calls > 0 /\ filterType = "grayscale" /\ ValidBuffer(input)
    /\ \E x \in Cols(input), y \in Rows(input) :
          /\ Px(imageData, x, y, 0) # Px(input, x, y, 0)
          /\ Px(imageData, x, y, 3) # Px(imageData, x, y, 0)
          /\ Px(imageData, x, y, 3) = Px(input, x, y, 3)

\* C7: blur with radius 0 is the identity on every well-formed buffer.
C7_BlurZeroIdentity ==
    (calls > 0 /\ filterType = "blur" /\ options.radius = 0
        /\ Len(input.data) = input.width * input.height * 4) =>
        imageData.data = input.data

\* A blur with radius 0 on a buffer whose neighbouring pixels differ.
C7_Witness ==
    /\ calls > 0 /\ filterType = "blur" /\ options.radius = 0
    /\ ValidBuffer(input) /\ input.width >= 2 /\ input.height >= 2
    /\ \E c \in 0..3 : Px(input, 0, 0, c) # Px(input, 1, 0, c)
    /\ \E c \in 0..3 : Px(input, 0, 0, c) # Px(input, 0, 1, c)
    /\ imageData.data = input.data

\* C8: pixelate with size 1 is the identity on every well-formed buffer.
C8_PixelateOneIdentity ==
    (calls > 0 /\ filterType = "pixelate" /\ options.size = 1
        /\ Len(input.data) = input.width * input.height * 4) =>
        /\ outcome = "returned"
        /\ imageData.data = input.data

\* A pixelate with size 1 on a buffer whose neighbouring pixels differ.
C8_Witness ==
    /\ calls > 0 /\ filterType = "pixelate" /\ options.size = 1
    /\ ValidBuffer(input) /\ input.width >= 2 /\ input.height >= 2
    /\ \E c \in 0..3 : Px(input, 0, 0, c) # Px(input, 1, 0, c)
    /\ \E c \in 0..3 : Px(input, 0, 0, c) # Px(input, 0, 1, c)
    /\ outcome = "returned"
    /\ imageData.data = input.data

\* C9: after pixelate with size >= 1, two pixels whose columns have the same
\* floor(x/size) and whose rows have the same floor(y/size) have identical
\* R, G, B and A, trailing smaller tiles included.
C9_PixelateTileUniform ==
    (calls > 0 /\ filterType = "pixelate" /\ options.size >= 1 /\ ValidBuffer(input)) =>
        /\ outcome = "returned"
        /\ \A x1 \in Cols(input), x2 \in Cols(input), y1 \in Rows(input), y2 \in Rows(input) :
              (x1 \div options.size = x2 \div options.size
                  /\ y1 \div options.size = y2 \div options.size) =>
                  \A c \in 0..3 : Px(imageData, x1, y1, c) = Px(imageData, x2, y2, c)

\* A pixelate with size 2 on a 3-wide buffer: a full tile whose input pixels
\* differ, next to a trailing tile one column wide with another value.
C9_Witness ==
    /\ calls > 0 /\ filterType = "pixelate" /\ options.size = 2
    /\ ValidBuffer(input) /\ input.width = 3 /\ input.height >= 2
    /\ Px(input, 0, 0, 0) # Px(input, 1, 0, 0)
    /\ Px(imageData, 0, 0, 0) = Px(imageData, 1, 1, 0)
    /\ Px(imageData, 2, 0, 0) = Px(imageData, 2, 1, 0)
    /\ Px(imageData, 2, 0, 0) # Px(imageData, 1, 0, 0)

\* C10: after edge, every interior pixel has R = G = B in 0..255 and the
\* alpha of the same input pixel.
C10_EdgeInteriorGray ==
    (calls > 0 /\ filterType = "edge" /\ ValidBuffer(input)) =>
        \A x \in Cols(input), y \in Rows(input) :
            Interior(input.width, input.height, x, y) =>
                /\ Px(imageData, x, y, 0) = Px(imageData, x, y, 1)
                /\ Px(imageData, x, y, 1) = Px(imageData, x, y, 2)
                /\ Px(imageData, x, y, 0) \in 0..255
                /\ Px(imageData, x, y, 3) = Px(input, x, y, 3)

\* An edge call with an interior pixel whose input channels differed, whose
\* magnitude is neither 0 nor capped, and whose alpha is another value.
C10_Witness ==
    /\ calls > 0 /\ filterType = "edge" /\ ValidBuffer(input)
    /\ \E x \in Cols(input), y \in Rows(input) :
          /\ Interior(input.width, input.height, x, y)
          /\ Px(input, x, y, 0) # Px(input, x, y, 1)
          /\ Px(imageData, x, y, 0) \in 1..254
          /\ Px(imageData, x, y, 0) = Px(imageData, x, y, 2)
          /\ Px(imageData, x, y, 3) = Px(input, x, y, 3)
          /\ Px(imageData, x, y, 3) # Px(imageData, x, y, 0)

\* C11: after any filter every channel value of the buffer is an integer in
\* 0..255; sharpen in particular stores 0 for a kernel sum of -1020 and 255
\* for a kernel sum of 1275.
C11_ChannelsInRange ==
    calls > 0 => \A k \in 1..Len(imageData.data) : imageData.data[k] \in 0..255

\* A sharpen call with an interior pixel whose kernel sum is -1020 (stored
\* as 0) and another whose kernel sum is 1275 (stored as 255).
C11_Witness ==
    /\ calls > 0 /\ filterType = "sharpen" /\ ValidBuffer(input)
    /\ \E x \in Cols(input), y \in Rows(input) :
          /\ Interior(input.width, input.height, x, y)
          /\ 5 * Px(input, x, y, 0) - Px(input, x, y - 1, 0) - Px(input, x, y + 1, 0)
                - Px(input, x - 1, y, 0) - Px(input, x + 1, y, 0) = -1020
          /\ Px(imageData, x, y, 0) = 0
    /\ \E x \in Cols(input), y \in Rows(input) :
          /\ Interior(input.width, input.height, x, y)
          /\ 5 * Px(input, x, y, 0) - Px(input, x, y - 1, 0) - Px(input, x, y + 1, 0)
                - Px(input, x - 1, y, 0) - Px(input, x + 1, y, 0) = 1275
          /\ Px(imageData, x, y, 0) = 255

\* C12 as stated: edge on the 3x3 buffer with a white centre and black
\* neighbours gives (255, 255, 255, input alpha) at the centre pixel.
C12_WhiteCentreMaximal ==
    (calls > 0 /\ filterType = "edge" /\ input = WhiteCentre) =>
        /\ Px(imageData, 1, 1, 0) = 255
        /\ Px(imageData, 1, 1, 1) = 255
        /\ Px(imageData, 1, 1, 2) = 255
        /\ Px(imageData, 1, 1, 3) = Px(input, 1, 1, 3)

\* C12 amended: edge on the 3x3 buffer with a white centre and black
\* neighbours gives (0, 0, 0, input alpha) at the centre pixel: both kernels
\* have weight 0 at the centre and the neighbours are black.
C12_WhiteCentreZero ==
    (calls > 0 /\ filterType = "edge" /\ input = WhiteCentre) =>
        /\ Px(imageData, 1, 1, 0) = 0
        /\ Px(imageData, 1, 1, 1) = 0
        /\ Px(imageData, 1, 1, 2) = 0
        /\ Px(imageData, 1, 1, 3) = Px(input, 1, 1, 3)

\* The edge call on the white-centre buffer has returned.
C12_Witness ==
    /\ calls > 0 /\ filterType = "edge" /\ input = WhiteCentre
    /\ outcome = "returned"
    /\ Px(input, 1, 1, 0) = 255
    /\ Px(imageData, 1, 1, 0) = 0
    /\ Px(imageData, 1, 1, 3) = 255

\* All pixels of the buffer carry the same (R, G, B, A).
Uniform(img) == \A k \in 1..Len(img.data) : img.data[k] = img.data[ChannelOf(k) + 1]

\* C13: blur with any radius >= 0 on a buffer of one colour returns that
\* colour at every pixel, edge and corner pixels included.
C13_BlurUniform ==
    (calls > 0 /\ filterType = "blur" /\ options.radius >= 0
        /\ ValidBuffer(input) /\ Uniform(input)) =>
        imageData.data = input.data

\* A blur with radius >= 1 on a uniform buffer of a colour with four
\* different channel values, large enough for clipped and unclipped windows.
C13_Witness ==
    /\ calls > 0 /\ filterType = "blur" /\ options.radius >= 1
    /\ ValidBuffer(input) /\ Uniform(input)
    /\ input.width >= 3 /\ input.height >= 3
    /\ Px(input, 0, 0, 0) # Px(input, 0, 0, 1)
    /\ Px(input, 0, 0, 0) # 0
    /\ imageData.data = input.data

\* The in-bounds pixels with the same floor(x/size) and floor(y/size) as (x, y).
TileMates(img, x, y, size) ==
    {q \in Cols(img) \X Rows(img) :
        q[1] \div size = x \div size /\ q[2] \div size = y \div size}

\* Sum of channel c of the input over a set of pixels.
RECURSIVE ChannelSum(_, _, _)
ChannelSum(img, S, c) ==
    IF S = {} THEN 0
    ELSE LET q == CHOOSE r \in S : TRUE
         IN Px(img, q[1], q[2], c) + ChannelSum(img, S \ {q}, c)

\* v is an integer nearest to sum/n.
Nearest(v, sum, n) == 2 * (v * n - sum) <= n /\ 2 * (sum - v * n) <= n

\* C14: after pixelate every channel of every pixel is the mean, rounded to
\* the nearest integer, of that channel over the in-bounds input pixels of
\* the pixel's tile; on the 4x4 checkerboard with size 2 every colour channel
\* is 127 or 128 and every 2x2 block is uniform.
C14_PixelateMean ==
    (calls > 0 /\ filterType = "pixelate" /\ options.size >= 1 /\ ValidBuffer(input)) =>
        /\ \A x \in Cols(input), y \in Rows(input), c \in 0..3 :
              LET mates == TileMates(input, x, y, options.size)
              IN Nearest(Px(imageData, x, y, c), ChannelSum(input, mates, c), Cardinality(mates))
        /\ (input = Checkerboard /\ options.size = 2) =>
              \A x \in Cols(input), y \in Rows(input) :
                  /\ \A c \in 0..2 : Px(imageData, x, y, c) \in {127, 128}
                  /\ \A c \in 0..3 : Px(imageData, x, y, c) =
                        Px(imageData, (x \div 2) * 2, (y \div 2) * 2, c)

\* The pixelate call with size 2 on the checkerboard.
C14_Witness ==
    /\ calls > 0 /\ filterType = "pixelate" /\ options.size = 2
    /\ input = Checkerboard
    /\ outcome = "returned"
    /\ \A x \in Cols(input), y \in Rows(input) : Px(imageData, x, y, 0) \in {127, 128}
    /\ Px(input, 0, 0, 0) = 0 /\ Px(input, 1, 0, 0) = 255

\* C17: blur with radius < 0 and pixelate with size < 1 end in a
\* ParameterRangeError and leave the buffer unchanged.
C17_ParameterRangeError ==
    (calls > 0 /\ ValidBuffer(input)
        /\ \/ (filterType = "blur" /\ options.radius < 0)
           \/ (filterType = "pixelate" /\ options.size < 1)) =>
        /\ outcome = "ParameterRangeError"
        /\ imageData = input

\* The in-bounds pixels (nx, ny) with |nx - x| <= radius and |ny - y| <= radius.
WindowMates(img, x, y, radius) ==
    {q \in Cols(img) \X Rows(img) :
        /\ q[1] - x <= radius /\ x - q[1] <= radius
        /\ q[2] - y <= radius /\ y - q[2] <= radius}

\* C19: after blur with radius >= 0 every channel (alpha included) of every
\* pixel is the mean, rounded to the nearest integer, of that channel over
\* exactly the in-bounds input pixels of the (2*radius+1)-square window.
C19_BlurMean ==
    (calls > 0 /\ filterType = "blur" /\ options.radius >= 0 /\ ValidBuffer(input)) =>
        \A x \in Cols(input), y \in Rows(input), c \in 0..3 :
            LET mates == WindowMates(input, x, y, options.radius)
            IN Nearest(Px(imageData, x, y, c), ChannelSum(input, mates, c), Cardinality(mates))

\* A blur with radius 1 on a grid with an interior pixel (9 samples) and a
\* corner (4 samples) whose alpha mean is not an integer and differs from
\* the input alpha.
C19_Witness ==
    /\ calls > 0 /\ filterType = "blur" /\ options.radius = 1
    /\ ValidBuffer(input) /\ input.width >= 3 /\ input.height >= 3
    /\ Cardinality(WindowMates(input, 0, 0, 1)) = 4
    /\ Cardinality(WindowMates(input, 1, 1, 1)) = 9
    /\ ChannelSum(input, WindowMates(input, 0, 0, 1), 3) % 4 # 0
    /\ Px(imageData, 0, 0, 3) # Px(input, 0, 0, 3)
    /\ Px(imageData, 1, 1, 0) # Px(input, 1, 1, 0)

\* clamp(v, 0, 255)
Clamp(v) == IF v < 0 THEN 0 ELSE IF v > 255 THEN 255 ELSE v

\* C20: after sharpen, for every interior pixel and each of R, G, B the
\* output is clamp(5*c(x,y) - c(x,y-1) - c(x,y+1) - c(x-1,y) - c(x+1,y), 0, 255)
\* of the input values, and the alpha is the input alpha.
C20_SharpenKernel ==
    (calls > 0 /\ filterType = "sharpen" /\ ValidBuffer(input)) =>
        \A x \in Cols(input), y \in Rows(input) :
            Interior(input.width, input.height, x, y) =>
                /\ \A c \in 0..2 :
                      Px(imageData, x, y, c) =
                          Clamp(5 * Px(input, x, y, c) - Px(input, x, y - 1, c)
                                - Px(input, x, y + 1, c) - Px(input, x - 1, y, c)
                                - Px(input, x + 1, y, c))
                /\ Px(imageData, x, y, 3) = Px(input, x, y, 3)

\* A sharpen call with an interior pixel whose output is neither clamped nor
\* its input value and which has a non-zero diagonal neighbour.
C20_Witness ==
    /\ calls > 0 /\ filterType = "sharpen" /\ ValidBuffer(input)
    /\ \E x \in Cols(input), y \in Rows(input) :
          /\ Interior(input.width, input.height, x, y)
          /\ Px(imageData, x, y, 0) \in 1..254
          /\ Px(imageData, x, y, 0) # Px(input, x, y, 0)
          /\ Px(input, x - 1, y - 1, 0) # 0
          /\ Px(imageData, x, y, 3) = Px(input, x, y, 3)
          /\ Px(imageData, x, y, 3) # Px(imageData, x, y, 0)

\* Some row of the buffer has two adjacent pixels with different G values.
RowVaries(img) ==
    \E y \in Rows(img), x \in 0..(img.width - 2) : Px(img, x, y, 1) # Px(img, x + 1, y, 1)

\* C16: glitch is non-deterministic: after a glitch call that draws at least
\* one scanline (floor(height * intensity) >= 1) on a buffer wide enough for a
\* non-zero offset (width >= 11) with a row that is not uniform, running
\* glitch again on the same input with the same intensity can end with a
\* buffer unequal to this one.
C16_GlitchNondeterministic ==
    (calls > 0 /\ filterType = "glitch" /\ ValidBuffer(input) /\ input.width >= 11
        /\ NumGlitches(input.height, options.intensity) >= 1 /\ RowVaries(input)) =>
        \E d \in _glitchFilter(input, options.intensity) : d # imageData.data

\* Two glitch runs from equal inputs with equal intensity that ended with
\* unequal buffers.
C16_Witness ==
    /\ calls > 0 /\ filterType = "glitch" /\ ValidBuffer(input)
    /\ rerun.made
    /\ rerun.data # imageData.data

\* C18: after stopAnimation(id) has returned, neither onUpdate nor onComplete
\* of the animation is invoked, whatever callbacks were pending and whatever
\* pauseAnimation / resumeAnimation calls follow, and the id is not in the
\* registry.
C18_StopIsFinal ==
    trace.stopReturned => (trace.afterStop = {} /\ AnimId \notin animations)

\* The sum of the three colour channels of input pixel (x, y).
ColourSum(img, x, y) == Px(img, x, y, 0) + Px(img, x, y, 1) + Px(img, x, y, 2)

\* C21: after grayscale every pixel has R = G = B = the mean (R+G+B)/3 of its
\* input colour channels rounded to the nearest integer; a pixel whose colour
\* channels are equal is unchanged, and the 4x4 buffer of (128,128,128,255)
\* is returned identical.
C21_GrayscaleMean ==
    (calls > 0 /\ filterType = "grayscale" /\ ValidBuffer(input)) =>
        /\ \A x \in Cols(input), y \in Rows(input) :
              /\ \A c \in 0..2 : Nearest(Px(imageData, x, y, c), ColourSum(input, x, y), 3)
              /\ (Px(input, x, y, 0) = Px(input, x, y, 1) /\ Px(input, x, y, 1) = Px(input, x, y, 2)) =>
                    \A c \in 0..3 : Px(imageData, x, y, c) = Px(input, x, y, c)
        /\ input = MidGray => (outcome = "returned" /\ imageData = input)

\* The grayscale call on the 3x1 buffer whose means are 23.67, 0.33 and 128.
C21_Witness ==
    /\ calls > 0 /\ filterType = "grayscale" /\ input = Thirds
    /\ outcome = "returned"
    /\ \A c \in 0..2 : Px(imageData, 0, 0, c) = 24 /\ Px(imageData, 1, 0, c) = 0
    /\ \A c \in 0..3 : Px(imageData, 2, 0, c) = Px(input, 2, 0, c)

\* C22: after glitch, with channelOffset = floor(width * 0.02), the R of every
\* output pixel (x, y) with x < width - channelOffset is the R of the input
\* pixel (x + channelOffset, y), whatever displacements were drawn; for
\* x >= width - channelOffset R is what the displacement step left (as G, B
\* and A are everywhere); when width < 50 every R equals its input R.
C22_RedShift ==
    (calls > 0 /\ filterType = "glitch" /\ ValidBuffer(input)) =>
        LET co == input.width \div 50
        IN /\ \A x \in Cols(input), y \in Rows(input) :
                 x < input.width - co => Px(imageData, x, y, 0) = Px(input, x + co, y, 0)
           /\ \E r \in Displaced(input.data, input.width, input.height,
                                 NumGlitches(input.height, options.intensity)) :
                 \A x \in Cols(input), y \in Rows(input) :
                    /\ x >= input.width - co =>
                          Px(imageData, x, y, 0) = Px([input EXCEPT !.data = r], x, y, 0)
                    /\ \A c \in 1..3 :
                          Px(imageData, x, y, c) = Px([input EXCEPT !.data = r], x, y, c)
           /\ input.width < 50 =>
                 \A x \in Cols(input), y \in Rows(input) :
                    Px(imageData, x, y, 0) = Px(input, x, y, 0)

\* A glitch call on the 50-wide buffer that displaced a scanline: R is
\* shifted by one column, G is not what it was, and the last column keeps
\* the R the displacement wrote there.
C22_Witness ==
    /\ calls > 0 /\ filterType = "glitch" /\ input = ShiftStripes
    /\ Px(imageData, 0, 0, 0) = Px(input, 1, 0, 0)
    /\ Px(imageData, 0, 0, 0) # Px(input, 0, 0, 0)
    /\ Px(imageData, 49, 0, 0) # Px(input, 49, 0, 0)
    /\ \E x \in Cols(input) : Px(imageData, x, 0, 1) # Px(input, x, 0, 1)

\* C23: blur, sharpen, edge and pixelate compute every output pixel from the
\* unmodified input (writes go to result, copied back at the end), so a pass
\* that takes the rows (or tile rows) in any order ends with the buffer the
\* top-to-bottom pass returns.
C23_RowOrderIndependent ==
    pass.phase = "done" =>
        \A res \in _processFilter(input, filterType, options) :
            res.outcome = "returned" /\ imageData.data = res.data

\* A pass that took a row before a row above it and changed the buffer.
C23_Witness ==
    /\ pass.phase = "done"
    /\ pass.outOfOrder
    /\ imageData.data # input.data
    /\ \E x \in Cols(input), y \in Rows(input) : Px(imageData, x, y, 0) # 0

C25_IndicesInRange ==
    (calls > 0 /\ filterType \in FilterNames /\ ValidBuffer(input) /\ ValidOptions(options)) =>
        /\ \A i \in Accessed(filterType, options, input) :
              i >= 0 /\ i < input.width * input.height * 4
        /\ filterType = "glitch" =>
              \A x \in Cols(input), y \in Rows(input) :
                 x < input.width - input.width \div 50 =>
                    ((y * input.width + x) * 4 + (input.width \div 50) * 4) \div (input.width * 4) = y

\* A glitch call on the 11-wide buffer whose destination index wrapped:
\* column 10 of a row was written to column 0.
C25_Witness ==
    /\ calls > 0 /\ filterType = "glitch" /\ input = WideStripes
    /\ outcome = "returned"
    /\ \E y \in Rows(input) :
          /\ Px(imageData, 0, y, 1) = Px(input, 10, y, 1)
          /\ Px(imageData, 0, y, 1) # Px(input, 0, y, 1)
    /\ (Len(input.data) - 1) \in Accessed(filterType, options, input)

\* The (G, B, A) triple of pixel (x, y).
GBA(img, x, y) == <<Px(img, x, y, 1), Px(img, x, y, 2), Px(img, x, y, 3)>>

\* The rows in which some G, B or A value of the output differs from the input.
ChangedRows == {y \in Rows(input) : \E x \in Cols(input) : GBA(imageData, x, y) # GBA(input, x, y)}

\* C26: glitch moves no pixel data across rows: the (G,B,A) of every output
\* pixel (x, y) is the (G,B,A) of some input pixel of row y, and G, B or A
\* differ from the input in at most floor(height * intensity) rows (in none
\* when intensity is 0).
C26_GlitchRows ==
    (calls > 0 /\ filterType = "glitch" /\ ValidBuffer(input)) =>
        /\ \A x \in Cols(input), y \in Rows(input) :
              \E sx \in Cols(input) : GBA(imageData, x, y) = GBA(input, sx, y)
        /\ Cardinality(ChangedRows) <= (input.height * options.intensity) \div IntensityDen
        /\ options.intensity = 0 => ChangedRows = {}

\* A glitch call that displaced both rows of the 11x2 buffer.
C26_Witness ==
    /\ calls > 0 /\ filterType = "glitch" /\ input = WideStripes
    /\ Cardinality(ChangedRows) = 2
    /\ \E x \in Cols(input) : GBA(imageData, x, 0) = GBA(input, (x + 10) % 11, 0)
                                 /\ GBA(imageData, x, 0) # GBA(input, x, 0)

\* C27: onComplete of an animation is invoked at most once over any sequence
\* of frames and pauseAnimation / resumeAnimation / stopAnimation calls,
\* those made after the status reached 'completed' included.
C27_OnCompleteOnce == trace.completes <= 1

\* C28: pausing freezes the progress: the progress a frame reports is the
\* time since createAnimation less the time spent paused, over the duration
\* (capped at 1), so the first frame after resumeAnimation continues from the
\* progress at which the animation was paused.
C28_PauseFreezesProgress ==
    pc = "onUpdate" =>
        frame.progress =
            MinOne([num |-> frame.timestamp - trace.createdAt - trace.pausedTotal,
                    den |-> animation.duration])

\* C29: an animation has at most one live chain of frame callbacks: onUpdate
\* is invoked at most once per frame, also when pauseAnimation and
\* resumeAnimation were both called while a callback was pending.
C29_OneUpdatePerFrame == frame.updates <= 1

====
